---- MODULE Spec2Model ----
(***************************************************************************)
(* Model of the stores crate: Observable, Derived, Deduped and Event with  *)
(* their callback registries.  Threads run the methods one lock            *)
(* acquisition at a time; every RwLock guard that the source drops at the  *)
(* end of a statement is one atomic step, and the registry read guard that *)
(* notify keeps while it iterates is held across steps.                    *)
(***************************************************************************)
EXTENDS Integers, Sequences, FiniteSets, TLC

\* ---------------------------------------------------------------- bounds
NThreads == 2
MaxVal == 3
MaxWrites == 3
MaxCalls == 2
MaxSet == 1

Threads == 1..NThreads
WriteVals == 1..MaxVal
SetVals == 1..MaxSet

\* -------------------------------------------------------------- entities
\* "a", "b": Observables; "d": a Derived over [a] computing a.get() * 2;
\* "s": a Derived over [a, b] computing a.get() + b.get();
\* "q": a Deduped wrapping a; "e": an Event;
\* "w": a Derived over [a, d] computing a.get() + d.get();
\* "m": an Observable that subscribers on a and b keep at a + b.
Entities == {"a", "b", "d", "s", "q", "e", "w", "m"}
ValueEntities == {"a", "b", "d", "s", "q", "w", "m"}

Kind(x) ==
  CASE x \in {"a", "b", "m"} -> "Observable"
    [] x \in {"d", "s", "w"} -> "Derived"
    [] x = "q" -> "Deduped"
    [] x = "e" -> "Event"

\* The upstream values a Derived's compute closure reads, in reading order.
Sources(x) ==
  CASE x = "d" -> <<"a">>
    [] x = "s" -> <<"a", "b">>
    [] x = "w" -> <<"a", "d">>
    [] OTHER -> <<>>

\* The targets handed to Derived::new, on each of which it registers its
\* listener.
TargetsFirstOnly(x) == IF x \in {"d", "s", "w"} THEN <<"a">> ELSE <<>>
Targets(x) ==
  CASE x = "d" -> <<"a">>
    [] x = "s" -> <<"a", "b">>
    [] x = "w" -> <<"a", "d">>
    [] OTHER -> <<>>

\* The compute closure of the Derived, applied to the values it has read.
ComputeFn(x, rd) == IF x \in {"s", "w"} THEN rd[1] + rd[2] ELSE rd[1] * 2

\* Deduped.target
Target(x) == "a"

\* The cell a set or update on x writes: a Deduped forwards to its target.
WriteTargetSelf(x) == x
WriteTarget(x) == IF Kind(x) = "Deduped" THEN Target(x) ELSE x

\* The updater closure passed to update.
Updater(v) == v + 1

VARIABLES
  value,      \* value[x]: the content of x.value
  callbacks,  \* callbacks[x]: the registry of x, in its iteration order
  counter,    \* counter[x]: the id counter of x
  rlock,      \* rlock[x][t]: read guards thread t holds on x.callbacks
  stack,      \* stack[t]: the call stack of thread t, innermost frame last
  budget,     \* budget[t]: calls thread t may still start
  fired,      \* fired[n]: how often the callback named n has been invoked
  recv,       \* recv[n]: <<v>> for the value last passed to callback n
  handle,     \* handle[n]: <<x, id>> once the registration of n has returned
  unreg,      \* names whose unregister handle has removed its id
  repeat,     \* subscribers that received the same value twice in a row
  changes,    \* changes[x]: writes of the Deduped x that changed its value
  passes,     \* passes[x]: notify passes started on x
  expected,   \* set calls whose value differed from the Deduped's value
  lost,       \* a pass started without a callback that was registered
  want,       \* <<x, op, v>>: the last write call, started with no other
              \* call in progress, asked for v on x; <<>> otherwise
  room        \* room[x]: entries the table of x.callbacks holds before it
              \* grows

vars == <<value, callbacks, counter, rlock, stack, budget, fired, recv,
          handle, unreg, repeat, changes, passes, expected, lost, want,
          room>>

\* ------------------------------------------------------------- callbacks
\* A callback: the Callback variant (kind), what the closure does (act),
\* the name its effects are recorded under, and the entity it captured.
Cb(kind, act, name, tgt) ==
  [kind |-> kind, act |-> act, name |-> name, tgt |-> tgt]

Names ==
  {<<"la", 0>>, <<"sa", 0>>, <<"dl", 0>>, <<"ld", 0>>, <<"qs", 0>>,
   <<"sq", 0>>, <<"lq", 0>>, <<"rg", 0>>, <<"rl", 0>>, <<"rs", 0>>,
   <<"nl", 0>>, <<"ns", 0>>, <<"sl", 1>>, <<"sl", 2>>, <<"ls", 0>>,
   <<"le", 0>>, <<"le", 1>>, <<"pn", 0>>, <<"wl", 1>>, <<"wl", 2>>,
   <<"lw", 0>>, <<"ma", 0>>, <<"mb", 0>>}
  \cup {<<"c", t>> : t \in Threads}

\* A counting listener, as the tests register it.
CountListener(name) == Cb("Listener", "count", name, "a")
\* A subscriber that stores or counts the value it receives.
StoreSubscriber(name) == Cb("Subscriber", "count", name, "a")
\* The listener Derived::new registers on each target.
DerivedListener == Cb("Listener", "derived", <<"dl", 0>>, "d")
\* The listener Derived::new registers on the i-th target of the sum.
SumListener(i) == Cb("Listener", "derived", <<"sl", i>>, "s")
\* The subscriber Deduped::from registers on its target.
DedupedSubscriber == Cb("Subscriber", "deduped", <<"qs", 0>>, "q")

\* The listener Derived::new registers on the i-th target of w.
ChainListener(i) == Cb("Listener", "derived", <<"wl", i>>, "w")
\* The subscribers that maintain m: on a, |a| m.set(b.get() + a); on b,
\* |b| m.set(a.get() + b).
MaintainSubscriber(x) ==
  Cb("Subscriber", "maintain", IF x = "a" THEN <<"ma", 0>> ELSE <<"mb", 0>>, "m")
\* The other cell a maintaining subscriber reads with get.
OtherCell(cb) == IF cb.name = <<"ma", 0>> THEN "b" ELSE "a"

\* The listener Derived::new of x registers on its i-th target.
ListenerOf(x, i) ==
  CASE x = "d" -> DerivedListener
    [] x = "s" -> SumListener(i)
    [] OTHER -> ChainListener(i)

\* A listener whose closure panics.
PanicCb == Cb("Listener", "panic", <<"pn", 0>>, "a")

NoCb == Cb("Listener", "none", <<"la", 0>>, "a")

Entry(id, cb) == [id |-> id, cb |-> cb]

\* ---------------------------------------------------------------- frames
Frame(op, pc, x, vo, cb) ==
  [op |-> op, pc |-> pc, e |-> x, vo |-> vo, id |-> 0, rem |-> <<>>,
   cb |-> cb, rd |-> <<>>]

\* listen starts by taking an id; subscribe starts by reading the value and
\* calling the callback with it.
ListenFrameCalling(x, cb) == Frame("subscribe", "call", x, <<>>, cb)
ListenFrame(x, cb) == Frame("listen", "id", x, <<>>, cb)
SubscribeFrameNoCall(x, cb) == Frame("subscribe", "id", x, <<>>, cb)
SubscribeFrame(x, cb) == Frame("subscribe", "read", x, <<>>, cb)

\* What is left of a thread's stack when a callback panics: nothing in this
\* crate catches the unwind, so every frame is gone and the panic is with
\* the caller of the outermost operation.
PanicFrame == Frame("panicked", "caller", "a", <<>>, PanicCb)
RaiseStackCaught(st) == st
RaiseStack(st) == <<PanicFrame>>

Idle(t) == stack[t] = <<>>
Panicked(t) == stack[t] = <<PanicFrame>>
\* No call is in progress.
AllIdle == \A t \in Threads : Idle(t)
\* No thread other than t has a call in progress.
Alone(t) == \A u \in Threads \ {t} : Idle(u) \/ Panicked(u)
Top(t) == stack[t][Len(stack[t])]
Below(t) == SubSeq(stack[t], 1, Len(stack[t]) - 1)
At(t, op, pc) == ~Idle(t) /\ Top(t).op = op /\ Top(t).pc = pc

\* RwLock::write on x.callbacks succeeds only while nobody holds a read guard.
WriteFreeAlways(x) == TRUE
WriteFree(x) == \A t \in Threads : rlock[x][t] = 0

\* The entries a std HashMap holds before its table grows: none when new,
\* 3 in 4 buckets, 7 in 8, 14 in 16.
RoomFor(n) == IF n = 0 THEN 0 ELSE IF n <= 3 THEN 3 ELSE IF n <= 7 THEN 7 ELSE 14
NextRoom(r) == RoomFor(r + 1)

\* Every order in which a grown table may iterate the entries of the set s:
\* growing rehashes every entry into the new buckets.
RECURSIVE Rehashed(_)
Rehashed(s) ==
  IF s = {} THEN {<<>>}
  ELSE UNION {{<<en>> \o o : o \in Rehashed(s \ {en})} : en \in s}

EntrySet(reg) == {reg[i] : i \in 1..Len(reg)}

\* HashMap::insert into a table with room: a present key keeps its slot and
\* gets the new callback; a new key lands anywhere in the iteration order,
\* the entries present staying where they are.
InsertAt(reg, k, ent) ==
  SubSeq(reg, 1, k) \o <<ent>> \o SubSeq(reg, k + 1, Len(reg))

HasId(reg, id) == \E i \in 1..Len(reg) : reg[i].id = id

Replaced(reg, ent) ==
  [i \in 1..Len(reg) |-> IF reg[i].id = ent.id THEN ent ELSE reg[i]]

\* HashMap::remove
Removed(reg, id) == SelectSeq(reg, LAMBDA x : x.id # id)

RegNames(reg) == {reg[i].cb.name : i \in 1..Len(reg)}

\* get: self.value.read().unwrap().clone()
Get(x) == value[x]

\* What notify iterates: callbacks.read().unwrap().values()
SnapshotSubscribersOnly(x) ==
  SelectSeq(callbacks[x], LAMBDA en : en.cb.kind = "Subscriber")
Snapshot(x) == callbacks[x]

\* The value update hands to set: the updater applied to the content.
UpdateValueStale(old) == old
UpdateValue(old) == Updater(old)

\* set calls notify after every store, changed or not.
SetNotifiesOnChange(old, v) == old # v
SetNotifies(old, v) == TRUE

\* What set stores over the old content: the value it was given.
AssignedNever(old, v) == old
Assigned(old, v) == v

\* Derived's listener notifies after every store, changed or not.
DerivedNotifiesOnChange(old, v) == old # v
DerivedNotifies(old, v) == TRUE

\* The comparison of the Deduped's subscriber.
DiffersAlways(shadow, v) == TRUE
Differs(shadow, v) == shadow # v

\* --------------------------------------------------- invoking a callback
\* Thread t calls cb with the value vo (<<>> for a listener); st is its
\* stack with the calling frame already advanced.
Invoke(t, cb, vo, st) ==
  /\ fired' = [fired EXCEPT ![cb.name] = @ + 1]
  /\ rlock' = IF cb.act = "panic" /\ RaiseStack(st) # st
                THEN [x \in Entities |-> [rlock[x] EXCEPT ![t] = 0]]
                ELSE rlock
  /\ IF cb.act = "panic"
       THEN /\ stack' = [stack EXCEPT ![t] = RaiseStack(st)]
            /\ UNCHANGED <<recv, repeat>>
     ELSE IF cb.act = "count"
       THEN /\ stack' = [stack EXCEPT ![t] = st]
            /\ recv' = IF cb.kind = "Subscriber"
                         THEN [recv EXCEPT ![cb.name] = vo] ELSE recv
            /\ repeat' = IF cb.kind = "Subscriber" /\ recv[cb.name] = vo
                           THEN repeat \cup {cb.name} ELSE repeat
     ELSE IF cb.act = "derived"
       THEN /\ stack' = [stack EXCEPT ![t] =
                           Append(st, Frame("dlisten", "compute", cb.tgt, <<>>, cb))]
            /\ UNCHANGED <<recv, repeat>>
     ELSE IF cb.act = "deduped"
       THEN /\ stack' = [stack EXCEPT ![t] =
                           Append(st, Frame("qsub", "cmp", cb.tgt, vo, cb))]
            /\ UNCHANGED <<recv, repeat>>
     ELSE IF cb.act = "maintain"
       THEN /\ stack' = [stack EXCEPT ![t] =
                           Append(st, Frame("maintain", "get", cb.tgt, vo, cb))]
            /\ UNCHANGED <<recv, repeat>>
     ELSE IF cb.act = "reget"
       THEN /\ stack' = [stack EXCEPT ![t] = st]
            /\ recv' = [recv EXCEPT ![cb.name] = <<value[cb.tgt]>>]
            /\ UNCHANGED repeat
     ELSE IF cb.act = "relisten"
       THEN /\ stack' = [stack EXCEPT ![t] =
                           Append(st, ListenFrame(cb.tgt,
                                                  CountListener(<<"nl", 0>>)))]
            /\ UNCHANGED <<recv, repeat>>
     ELSE /\ cb.act = "resubscribe"
          /\ stack' = [stack EXCEPT ![t] =
                         Append(st, SubscribeFrame(cb.tgt,
                                                   StoreSubscriber(<<"ns", 0>>)))]
          /\ UNCHANGED <<recv, repeat>>

\* ------------------------------------------------------------ operations
\* set(v) on an Observable, or on a Deduped, which forwards to its target.
CallSet(t, x, v) ==
  /\ Idle(t) /\ budget[t] > 0
  /\ Kind(x) \in {"Observable", "Deduped"}
  /\ budget' = [budget EXCEPT ![t] = @ - 1]
  /\ stack' = [stack EXCEPT ![t] =
       <<Frame("set", "write", WriteTarget(x),
               <<v>>, NoCb)>>]
  /\ expected' = IF v # value["q"] THEN expected + 1 ELSE expected
  /\ want' = IF Alone(t) THEN <<x, "set", v>> ELSE <<>>
  /\ UNCHANGED <<room, value, callbacks, counter, rlock, fired, recv, handle,
                 unreg, repeat, changes, passes, lost>>

\* update(updater) on an Observable, or on a Deduped, which forwards.
CallUpdate(t, x) ==
  /\ Idle(t) /\ budget[t] > 0
  /\ Kind(x) \in {"Observable", "Deduped"}
  /\ budget' = [budget EXCEPT ![t] = @ - 1]
  /\ stack' = [stack EXCEPT ![t] =
       <<Frame("update", "read", WriteTarget(x),
               <<>>, NoCb)>>]
  /\ want' = IF Alone(t)
               THEN <<x, "update", Updater(value[WriteTarget(x)])>> ELSE <<>>
  /\ UNCHANGED <<room, value, callbacks, counter, rlock, fired, recv, handle,
                 unreg, repeat, changes, passes, expected, lost>>

\* update: let value = updater(&self.value.read().unwrap());  then set(value)
UpdateRead(t) ==
  /\ At(t, "update", "read")
  /\ stack' = [stack EXCEPT ![t] =
       Append(Below(t),
              Frame("set", "write", Top(t).e, <<UpdateValue(value[Top(t).e])>>,
                    NoCb))]
  /\ UNCHANGED <<room, value, callbacks, counter, rlock, budget, fired, recv,
                 handle, unreg, repeat, changes, passes, expected, lost, want>>

\* set: *self.value.write().unwrap() = value.clone();  then notify()
SetWrite(t) ==
  /\ At(t, "set", "write")
  /\ value' = [value EXCEPT ![Top(t).e] = Assigned(@, Top(t).vo[1])]
  /\ stack' = [stack EXCEPT ![t] =
       IF SetNotifies(value[Top(t).e], Top(t).vo[1])
         THEN Append(Below(t), Frame("notify", "read", Top(t).e, <<>>, NoCb))
         ELSE Below(t)]
  /\ UNCHANGED <<room, callbacks, counter, rlock, budget, fired, recv, handle,
                 unreg, repeat, changes, passes, expected, lost, want>>

\* notify: let value = self.value.read().unwrap().clone();
NotifyRead(t) ==
  /\ At(t, "notify", "read")
  /\ passes' = [passes EXCEPT ![Top(t).e] = @ + 1]
  /\ stack' = [stack EXCEPT ![t] =
       Append(Below(t), [Top(t) EXCEPT !.pc = "lock", !.vo = <<value[Top(t).e]>>])]
  /\ UNCHANGED <<room, value, callbacks, counter, rlock, budget, fired, recv,
                 handle, unreg, repeat, changes, expected, lost, want>>

\* A registration that has returned, whose handle has not been called.
Live(n, x) ==
  /\ handle[n] # <<>> /\ handle[n][1] = x
  /\ n \notin unreg
  /\ \A t \in Threads : ~(At(t, "unreg", "remove") /\ Top(t).cb.name = n)

\* notify: self.callbacks.read().unwrap(), kept for the whole for loop.
NotifyLock(t) ==
  /\ At(t, "notify", "lock")
  /\ rlock' = [rlock EXCEPT ![Top(t).e][t] = @ + 1]
  /\ stack' = [stack EXCEPT ![t] =
       Append(Below(t), [Top(t) EXCEPT !.pc = "iter", !.rem = Snapshot(Top(t).e)])]
  /\ lost' = (lost \/ \E n \in Names :
                        Live(n, Top(t).e) /\ n \notin RegNames(Snapshot(Top(t).e)))
  /\ UNCHANGED <<room, value, callbacks, counter, budget, fired, recv, handle,
                 unreg, repeat, changes, passes, expected, want>>

\* notify: one turn of the for loop, calling the next callback.
NotifyNext(t) ==
  /\ At(t, "notify", "iter")
  /\ Top(t).rem # <<>>
  /\ Invoke(t, Head(Top(t).rem).cb,
            IF Head(Top(t).rem).cb.kind = "Subscriber" THEN Top(t).vo ELSE <<>>,
            Append(Below(t), [Top(t) EXCEPT !.rem = Tail(@)]))
  /\ UNCHANGED <<room, value, callbacks, counter, budget, handle, unreg,
                 changes, passes, expected, lost, want>>

\* notify: the loop is over, the read guard is dropped, notify returns.
NotifyDone(t) ==
  /\ At(t, "notify", "iter")
  /\ Top(t).rem = <<>>
  /\ rlock' = [rlock EXCEPT ![Top(t).e][t] = @ - 1]
  /\ stack' = [stack EXCEPT ![t] = Below(t)]
  /\ UNCHANGED <<room, value, callbacks, counter, budget, fired, recv, handle,
                 unreg, repeat, changes, passes, expected, lost, want>>

\* Derived's listener: let new_value = (instance.compute)();
\* one upstream get() per step.
DerivedCompute(t) ==
  /\ At(t, "dlisten", "compute")
  /\ LET x == Top(t).e
         rd == Append(Top(t).rd, value[Sources(x)[Len(Top(t).rd) + 1]])
     IN stack' = [stack EXCEPT ![t] =
          Append(Below(t),
                 IF Len(rd) = Len(Sources(x))
                   THEN [Top(t) EXCEPT !.pc = "write", !.rd = rd,
                                       !.vo = <<ComputeFn(x, rd)>>]
                   ELSE [Top(t) EXCEPT !.rd = rd])]
  /\ UNCHANGED <<room, value, callbacks, counter, rlock, budget, fired, recv,
                 handle, unreg, repeat, changes, passes, expected, lost, want>>

\* Derived's listener: *instance.value.write().unwrap() = new_value.clone();
\* then instance.notify()
DerivedWrite(t) ==
  /\ At(t, "dlisten", "write")
  /\ value' = [value EXCEPT ![Top(t).e] = Top(t).vo[1]]
  /\ stack' = [stack EXCEPT ![t] =
       IF DerivedNotifies(value[Top(t).e], Top(t).vo[1])
         THEN Append(Below(t), Frame("notify", "read", Top(t).e, <<>>, NoCb))
         ELSE Below(t)]
  /\ UNCHANGED <<room, callbacks, counter, rlock, budget, fired, recv, handle,
                 unreg, repeat, changes, passes, expected, lost, want>>

\* Deduped's subscriber: if *instance.value.read().unwrap() != *value
DedupedCompare(t) ==
  /\ At(t, "qsub", "cmp")
  /\ stack' = [stack EXCEPT ![t] =
       IF Differs(value[Top(t).e], Top(t).vo[1])
         THEN Append(Below(t), [Top(t) EXCEPT !.pc = "write"])
         ELSE Below(t)]
  /\ UNCHANGED <<room, value, callbacks, counter, rlock, budget, fired, recv,
                 handle, unreg, repeat, changes, passes, expected, lost, want>>

\* Deduped's subscriber: *instance.value.write().unwrap() = value.clone();
\* then instance.notify()
DedupedWrite(t) ==
  /\ At(t, "qsub", "write")
  /\ value' = [value EXCEPT ![Top(t).e] = Top(t).vo[1]]
  /\ changes' = IF value[Top(t).e] # Top(t).vo[1]
                  THEN [changes EXCEPT ![Top(t).e] = @ + 1] ELSE changes
  /\ stack' = [stack EXCEPT ![t] =
       Append(Below(t), Frame("notify", "read", Top(t).e, <<>>, NoCb))]
  /\ UNCHANGED <<room, callbacks, counter, rlock, budget, fired, recv, handle,
                 unreg, repeat, passes, expected, lost, want>>

\* The maintaining subscriber: m.set(other.get() + v)
MaintainGet(t) ==
  /\ At(t, "maintain", "get")
  /\ stack' = [stack EXCEPT ![t] =
       Append(Below(t),
              Frame("set", "write", Top(t).e,
                    <<Get(OtherCell(Top(t).cb)) + Top(t).vo[1]>>, NoCb))]
  /\ UNCHANGED <<room, value, callbacks, counter, rlock, budget, fired, recv,
                 handle, unreg, repeat, changes, passes, expected, lost, want>>

\* Derived::new(targets, compute), called by thread t to build x.
CallNew(t, x) ==
  /\ Idle(t) /\ budget[t] > 0
  /\ Kind(x) = "Derived"
  /\ budget' = [budget EXCEPT ![t] = @ - 1]
  /\ stack' = [stack EXCEPT ![t] = <<Frame("new", "compute", x, <<>>, NoCb)>>]
  /\ UNCHANGED <<room, value, callbacks, counter, rlock, fired, recv, handle,
                 unreg, repeat, changes, passes, expected, lost, want>>

\* Derived::new: let value = compute();  one upstream get() per step, and
\* the result becomes the content of the new instance.
NewCompute(t) ==
  /\ At(t, "new", "compute")
  /\ LET x == Top(t).e
         rd == Append(Top(t).rd, value[Sources(x)[Len(Top(t).rd) + 1]])
     IN IF Len(rd) = Len(Sources(x))
          THEN /\ value' = [value EXCEPT ![x] = ComputeFn(x, rd)]
               /\ stack' = [stack EXCEPT ![t] =
                    Append(Below(t), [Top(t) EXCEPT !.pc = "targets", !.rd = rd,
                                                    !.id = 1])]
          ELSE /\ value' = value
               /\ stack' = [stack EXCEPT ![t] =
                    Append(Below(t), [Top(t) EXCEPT !.rd = rd])]
  /\ UNCHANGED <<room, callbacks, counter, rlock, budget, fired, recv, handle,
                 unreg, repeat, changes, passes, expected, lost, want>>

\* Derived::new: for target in targets { target.listen(...) }, one target
\* per step; after the last, the instance is returned.
NewListen(t) ==
  /\ At(t, "new", "targets")
  /\ LET x == Top(t).e
         i == Top(t).id
     IN stack' = [stack EXCEPT ![t] =
          IF i > Len(Targets(x))
            THEN Below(t)
            ELSE Append(Append(Below(t), [Top(t) EXCEPT !.id = i + 1]),
                        ListenFrame(Targets(x)[i], ListenerOf(x, i)))]
  /\ UNCHANGED <<room, value, callbacks, counter, rlock, budget, fired, recv,
                 handle, unreg, repeat, changes, passes, expected, lost, want>>

\* Deduped::from(target), called by thread t to build x.
CallFrom(t, x) ==
  /\ Idle(t) /\ budget[t] > 0
  /\ Kind(x) = "Deduped"
  /\ budget' = [budget EXCEPT ![t] = @ - 1]
  /\ stack' = [stack EXCEPT ![t] = <<Frame("from", "get", x, <<>>, NoCb)>>]
  /\ UNCHANGED <<room, value, callbacks, counter, rlock, fired, recv, handle,
                 unreg, repeat, changes, passes, expected, lost, want>>

\* Deduped::from: value: RwLock::new(target.get()); then
\* target.subscribe(...), after which the instance is returned.
FromGet(t) ==
  /\ At(t, "from", "get")
  /\ value' = [value EXCEPT ![Top(t).e] = Get(Target(Top(t).e))]
  /\ stack' = [stack EXCEPT ![t] =
       Append(Below(t), SubscribeFrame(Target(Top(t).e), DedupedSubscriber))]
  /\ UNCHANGED <<room, callbacks, counter, rlock, budget, fired, recv, handle,
                 unreg, repeat, changes, passes, expected, lost, want>>

\* Event::dispatch, called by thread t: the registry is read and iterated.
CallDispatch(t, x) ==
  /\ Idle(t) /\ budget[t] > 0
  /\ Kind(x) = "Event"
  /\ budget' = [budget EXCEPT ![t] = @ - 1]
  /\ passes' = [passes EXCEPT ![x] = @ + 1]
  /\ stack' = [stack EXCEPT ![t] = <<Frame("notify", "lock", x, <<>>, NoCb)>>]
  /\ UNCHANGED <<room, value, callbacks, counter, rlock, fired, recv, handle,
                 unreg, repeat, changes, expected, lost, want>>

\* listen(callback), called by thread t with its own counting closure.
CallListen(t, x) ==
  /\ Idle(t) /\ budget[t] > 0
  /\ handle[<<"c", t>>] = <<>>
  /\ budget' = [budget EXCEPT ![t] = @ - 1]
  /\ stack' = [stack EXCEPT ![t] =
       <<ListenFrame(x, CountListener(<<"c", t>>))>>]
  /\ UNCHANGED <<room, value, callbacks, counter, rlock, fired, recv, handle,
                 unreg, repeat, changes, passes, expected, lost, want>>

\* subscribe(callback), called by thread t with its own storing closure.
CallSubscribe(t, x) ==
  /\ Idle(t) /\ budget[t] > 0
  /\ handle[<<"c", t>>] = <<>>
  /\ Kind(x) # "Event"
  /\ budget' = [budget EXCEPT ![t] = @ - 1]
  /\ stack' = [stack EXCEPT ![t] =
       <<SubscribeFrame(x, StoreSubscriber(<<"c", t>>))>>]
  /\ UNCHANGED <<room, value, callbacks, counter, rlock, fired, recv, handle,
                 unreg, repeat, changes, passes, expected, lost, want>>

\* subscribe: let value = self.value.read().unwrap().clone();
SubscribeRead(t) ==
  /\ At(t, "subscribe", "read")
  /\ stack' = [stack EXCEPT ![t] =
       Append(Below(t), [Top(t) EXCEPT !.pc = "call", !.vo = <<value[Top(t).e]>>])]
  /\ UNCHANGED <<room, value, callbacks, counter, rlock, budget, fired, recv,
                 handle, unreg, repeat, changes, passes, expected, lost, want>>

\* subscribe: callback(&value);
SubscribeCall(t) ==
  /\ At(t, "subscribe", "call")
  /\ Invoke(t, Top(t).cb, Top(t).vo,
            Append(Below(t), [Top(t) EXCEPT !.pc = "id"]))
  /\ UNCHANGED <<room, value, callbacks, counter, budget, handle, unreg,
                 changes, passes, expected, lost, want>>

\* The id a registration takes: let id = *self.counter.read().unwrap();
TakenIdLen(x) == Len(callbacks[x])
TakenId(x) == counter[x]

\* listen / subscribe: let id = *self.counter.read().unwrap();
RegisterId(t) ==
  /\ ~Idle(t) /\ Top(t).op \in {"listen", "subscribe"} /\ Top(t).pc = "id"
  /\ stack' = [stack EXCEPT ![t] =
       Append(Below(t), [Top(t) EXCEPT !.pc = "inc", !.id = TakenId(Top(t).e)])]
  /\ UNCHANGED <<room, value, callbacks, counter, rlock, budget, fired, recv,
                 handle, unreg, repeat, changes, passes, expected, lost, want>>

\* listen / subscribe: *self.counter.write().unwrap() += 1;
RegisterInc(t) ==
  /\ ~Idle(t) /\ Top(t).op \in {"listen", "subscribe"} /\ Top(t).pc = "inc"
  /\ counter' = [counter EXCEPT ![Top(t).e] = @ + 1]
  /\ stack' = [stack EXCEPT ![t] =
       Append(Below(t), [Top(t) EXCEPT !.pc = "insert"])]
  /\ UNCHANGED <<room, value, callbacks, rlock, budget, fired, recv, handle,
                 unreg, repeat, changes, passes, expected, lost, want>>

\* listen / subscribe: self.callbacks.write().unwrap().insert(id, callback);
\* and the unregister closure is returned.
RegisterInsert(t) ==
  /\ ~Idle(t) /\ Top(t).op \in {"listen", "subscribe"} /\ Top(t).pc = "insert"
  /\ WriteFree(Top(t).e)
  /\ LET x == Top(t).e
         ent == Entry(Top(t).id, Top(t).cb)
         reg == callbacks[x]
     IN IF Len(reg) = room[x]
          \* insert reserves room for one more entry before it looks the
          \* key up: the table grows and every entry is rehashed.
          THEN /\ room' = [room EXCEPT ![x] = NextRoom(@)]
               /\ \E o \in Rehashed(IF HasId(reg, ent.id)
                                       THEN EntrySet(Replaced(reg, ent))
                                       ELSE EntrySet(reg) \cup {ent}) :
                    callbacks' = [callbacks EXCEPT ![x] = o]
          ELSE /\ room' = room
               /\ IF HasId(reg, ent.id)
                    THEN callbacks' = [callbacks EXCEPT ![x] = Replaced(@, ent)]
                    ELSE \E k \in 0..Len(reg) :
                           callbacks' = [callbacks EXCEPT ![x] = InsertAt(@, k, ent)]
  /\ handle' = [handle EXCEPT ![Top(t).cb.name] = <<Top(t).e, Top(t).id>>]
  /\ stack' = [stack EXCEPT ![t] = Below(t)]
  /\ UNCHANGED <<value, counter, rlock, budget, fired, recv, unreg, repeat,
                 changes, passes, expected, lost, want>>

\* Thread t calls the unregister closure its registration returned.
CallUnregister(t) ==
  /\ Idle(t) /\ budget[t] > 0
  /\ handle[<<"c", t>>] # <<>>
  /\ budget' = [budget EXCEPT ![t] = @ - 1]
  /\ stack' = [stack EXCEPT ![t] =
       <<[Frame("unreg", "remove", handle[<<"c", t>>][1], <<>>,
                CountListener(<<"c", t>>)) EXCEPT !.id = handle[<<"c", t>>][2]]>>]
  /\ UNCHANGED <<room, value, callbacks, counter, rlock, fired, recv, handle,
                 unreg, repeat, changes, passes, expected, lost, want>>

\* The unregister closure: self.callbacks.write().unwrap().remove(&id);
UnregisterRemove(t) ==
  /\ At(t, "unreg", "remove")
  /\ WriteFree(Top(t).e)
  /\ callbacks' = [callbacks EXCEPT ![Top(t).e] = Removed(@, Top(t).id)]
  /\ unreg' = unreg \cup {Top(t).cb.name}
  /\ stack' = [stack EXCEPT ![t] = Below(t)]
  /\ UNCHANGED <<room, value, counter, rlock, budget, fired, recv, handle, repeat,
                 changes, passes, expected, lost, want>>

\* ------------------------------------------------------------ initial state
InitBase ==
  /\ counter = [x \in Entities |-> Len(callbacks[x])]
  /\ room = [x \in Entities |-> RoomFor(Len(callbacks[x]))]
  /\ rlock = [x \in Entities |-> [t \in Threads |-> 0]]
  /\ stack = [t \in Threads |-> <<>>]
  /\ unreg = {}
  /\ repeat = {}
  /\ changes = [x \in ValueEntities |-> 0]
  /\ passes = [x \in Entities |-> 0]
  /\ expected = 0
  /\ lost = FALSE
  /\ want = <<>>

\* The handles of the registrations found in the registries.
HandlesOf(regs) ==
  [n \in Names |->
     IF \E x \in Entities : \E i \in 1..Len(regs[x]) : regs[x][i].cb.name = n
       THEN LET x == CHOOSE y \in Entities :
                       \E i \in 1..Len(regs[y]) : regs[y][i].cb.name = n
                i == CHOOSE j \in 1..Len(regs[x]) : regs[x][j].cb.name = n
            IN <<x, regs[x][i].id>>
       ELSE <<>>]

\* Every order in which a registry holding the entries of s may iterate.
Orders(s) ==
  {q \in [1..Cardinality(s) -> s] : \A i, j \in 1..Cardinality(s) :
                                      i # j => q[i] # q[j]}

\* let a = Observable::new(0); let d = Derived::new(&[a], || a.get() * 2);
\* a.listen(count); d.listen(count); then every thread writes a once.
InitWriters ==
  /\ value = [x \in ValueEntities |-> 0]
  /\ \E oa \in Orders({Entry(0, DerivedListener),
                      Entry(1, CountListener(<<"la", 0>>))}) :
       callbacks = [x \in Entities |->
                      IF x = "a" THEN oa
                      ELSE IF x = "d" THEN <<Entry(0, CountListener(<<"ld", 0>>))>>
                      ELSE <<>>]
  /\ budget = [t \in Threads |-> 1]
  /\ fired = [n \in Names |-> 0]
  /\ recv = [n \in Names |-> <<>>]
  /\ handle = HandlesOf(callbacks)
  /\ InitBase

WriteSteps(t) ==
  \/ SetWrite(t)
  \/ NotifyRead(t)
  \/ NotifyLock(t)
  \/ NotifyNext(t)
  \/ NotifyDone(t)

\* N threads, each calling a.update(|v| v + 1) once.
NextUpdate ==
  \E t \in Threads :
    \/ CallUpdate(t, "a")
    \/ UpdateRead(t)
    \/ WriteSteps(t)
    \/ DerivedCompute(t)
    \/ DerivedWrite(t)

SpecUpdate == InitWriters /\ [][NextUpdate]_vars

RegisterSteps(t) ==
  \/ RegisterId(t)
  \/ RegisterInc(t)
  \/ RegisterInsert(t)

\* N threads, each calling a.set(v) or a.update(|v| v + 1) once.
NextWrite ==
  \E t \in Threads :
    \/ \E v \in SetVals : CallSet(t, "a", v)
    \/ CallUpdate(t, "a")
    \/ UpdateRead(t)
    \/ WriteSteps(t)
    \/ DerivedCompute(t)
    \/ DerivedWrite(t)

SpecWrite == InitWriters /\ [][NextWrite]_vars

\* let a = Observable::new(1); let q = Deduped::from(a.clone());
\* a.subscribe(store); q.subscribe(store); q.listen(count);
\* each subscribe has already called its closure once with 1.
\* (No Derived is built here; value["d"] is a placeholder nothing reads.)
InitDedupedRegs ==
  /\ value = [x \in ValueEntities |-> IF x = "d" THEN 2 ELSE 1]
  /\ \E oa \in Orders({Entry(0, DedupedSubscriber),
                      Entry(1, StoreSubscriber(<<"sa", 0>>))}) :
     \E oq \in Orders({Entry(0, StoreSubscriber(<<"sq", 0>>)),
                      Entry(1, CountListener(<<"lq", 0>>))}) :
       callbacks = [x \in Entities |->
                      IF x = "a" THEN oa ELSE IF x = "q" THEN oq ELSE <<>>]
  /\ fired = [n \in Names |->
                IF n \in {<<"qs", 0>>, <<"sa", 0>>, <<"sq", 0>>} THEN 1 ELSE 0]
  /\ recv = [n \in Names |->
               IF n \in {<<"qs", 0>>, <<"sa", 0>>, <<"sq", 0>>} THEN <<1>> ELSE <<>>]
  /\ handle = HandlesOf(callbacks)
  /\ InitBase

\* ... then every thread writes once, to the cell or through the Deduped.
InitDeduped ==
  /\ InitDedupedRegs
  /\ budget = [t \in Threads |-> 1]

NextDeduped ==
  \E t \in Threads :
    \/ \E x \in {"a", "q"} : \E v \in WriteVals : CallSet(t, x, v)
    \/ \E x \in {"a", "q"} : CallUpdate(t, x)
    \/ UpdateRead(t)
    \/ WriteSteps(t)
    \/ DedupedCompare(t)
    \/ DedupedWrite(t)

SpecDeduped == InitDeduped /\ [][NextDeduped]_vars

\* ... then one thread makes MaxWrites set calls, one after the other.
InitSeq ==
  /\ InitDedupedRegs
  /\ budget = [t \in Threads |-> IF t = 1 THEN MaxWrites ELSE 0]

NextSeq ==
  \E t \in Threads :
    \/ \E x \in {"a", "q"} : \E v \in WriteVals : CallSet(t, x, v)
    \/ WriteSteps(t)
    \/ DedupedCompare(t)
    \/ DedupedWrite(t)

SpecSeq == InitSeq /\ [][NextSeq]_vars

\* let a = Observable::new(0); then every thread makes up to MaxCalls calls:
\* listen or subscribe with its own closure, its unregister handle, set.
InitReg ==
  /\ value = [x \in ValueEntities |-> 0]
  /\ callbacks = [x \in Entities |-> <<>>]
  /\ budget = [t \in Threads |-> MaxCalls]
  /\ fired = [n \in Names |-> 0]
  /\ recv = [n \in Names |-> <<>>]
  /\ handle = HandlesOf(callbacks)
  /\ InitBase

NextReg ==
  \E t \in Threads :
    \/ CallListen(t, "a")
    \/ CallSubscribe(t, "a")
    \/ SubscribeRead(t)
    \/ SubscribeCall(t)
    \/ RegisterSteps(t)
    \/ CallUnregister(t)
    \/ UnregisterRemove(t)
    \/ CallSet(t, "a", 1)
    \/ WriteSteps(t)

SpecReg == InitReg /\ [][NextReg]_vars

\* As InitReg, with one more call per thread, so that a handle can be
\* called again after it has been called.
InitHandles ==
  /\ value = [x \in ValueEntities |-> 0]
  /\ callbacks = [x \in Entities |-> <<>>]
  /\ budget = [t \in Threads |-> MaxCalls + 1]
  /\ fired = [n \in Names |-> 0]
  /\ recv = [n \in Names |-> <<>>]
  /\ handle = HandlesOf(callbacks)
  /\ InitBase

SpecHandles == InitHandles /\ [][NextReg]_vars

\* A callback that calls get, listen or subscribe on the entity it is
\* registered on.
ReentrantCbs ==
  {Cb("Listener", "reget", <<"rg", 0>>, "a"),
   Cb("Listener", "relisten", <<"rl", 0>>, "a"),
   Cb("Listener", "resubscribe", <<"rs", 0>>, "a")}

\* let a = Observable::new(0); a.listen(count); a.listen(re-entering closure);
\* then every thread makes up to MaxCalls calls: set, or listen.
InitReentrant ==
  /\ value = [x \in ValueEntities |-> 0]
  /\ \E cb \in ReentrantCbs :
     \E oa \in Orders({Entry(0, CountListener(<<"la", 0>>)), Entry(1, cb)}) :
       callbacks = [x \in Entities |-> IF x = "a" THEN oa ELSE <<>>]
  /\ budget = [t \in Threads |-> MaxCalls]
  /\ fired = [n \in Names |-> 0]
  /\ recv = [n \in Names |-> <<>>]
  /\ handle = HandlesOf(callbacks)
  /\ InitBase

NextReentrant ==
  \E t \in Threads :
    \/ \E v \in WriteVals : CallSet(t, "a", v)
    \/ WriteSteps(t)
    \/ CallListen(t, "a")
    \/ SubscribeRead(t)
    \/ SubscribeCall(t)
    \/ RegisterSteps(t)

SpecReentrant == InitReentrant /\ [][NextReentrant]_vars

\* let a = Observable::new(0); let d = Derived::new(&[a], || a.get() * 2);
\* let q = Deduped::from(a.clone());  (from has called its subscriber once.)
\* The second cell and the sum are not built here; their values are unused.
InitBuilt ==
  /\ value = [x \in ValueEntities |-> 0]
  /\ \E oa \in Orders({Entry(0, DerivedListener), Entry(1, DedupedSubscriber)}) :
       callbacks = [x \in Entities |-> IF x = "a" THEN oa ELSE <<>>]
  /\ fired = [n \in Names |-> IF n = <<"qs", 0>> THEN 1 ELSE 0]
  /\ recv = [n \in Names |-> IF n = <<"qs", 0>> THEN <<0>> ELSE <<>>]
  /\ handle = HandlesOf(callbacks)
  /\ InitBase

\* ... then one thread makes up to MaxCalls + 1 calls, one after the other:
\* a.set(v), or subscribe on the cell, the Derived or the Deduped with its
\* own storing closure.
InitSubscribe ==
  /\ InitBuilt
  /\ budget = [t \in Threads |-> IF t = 1 THEN MaxCalls + 1 ELSE 0]

NextSubscribe ==
  \E t \in Threads :
    \/ \E x \in {"a", "d", "q"} : CallSubscribe(t, x)
    \/ SubscribeRead(t)
    \/ SubscribeCall(t)
    \/ RegisterSteps(t)
    \/ \E v \in WriteVals : CallSet(t, "a", v)
    \/ WriteSteps(t)
    \/ DerivedCompute(t)
    \/ DerivedWrite(t)
    \/ DedupedCompare(t)
    \/ DedupedWrite(t)

SpecSubscribe == InitSubscribe /\ [][NextSubscribe]_vars

\* ... then thread 1 calls subscribe once, on the cell, the Derived or the
\* Deduped, while every other thread calls a.set(v) once.
InitRace ==
  /\ InitBuilt
  /\ budget = [t \in Threads |-> 1]

NextRace ==
  \E t \in Threads :
    \/ \E x \in {"a", "d", "q"} : t = 1 /\ CallSubscribe(t, x)
    \/ SubscribeRead(t)
    \/ SubscribeCall(t)
    \/ RegisterSteps(t)
    \/ \E v \in WriteVals : t # 1 /\ CallSet(t, "a", v)
    \/ WriteSteps(t)
    \/ DerivedCompute(t)
    \/ DerivedWrite(t)
    \/ DedupedCompare(t)
    \/ DedupedWrite(t)

SpecRace == InitRace /\ [][NextRace]_vars

\* let e = Event::new(); and a, d, q as above; then one thread makes up to
\* MaxCalls + 1 calls, one after the other: listen on the cell, the Derived,
\* the Deduped or the Event with its own counting closure, subscribe on one
\* of the first three with its own storing closure, a.set(v),
\* a.update(|v| v + 1), or e.dispatch().
InitListen ==
  /\ InitBuilt
  /\ budget = [t \in Threads |-> IF t = 1 THEN MaxCalls + 1 ELSE 0]

NextListen ==
  \E t \in Threads :
    \/ \E x \in {"a", "d", "q", "e"} : CallListen(t, x)
    \/ \E x \in {"a", "d", "q"} : CallSubscribe(t, x)
    \/ SubscribeRead(t)
    \/ SubscribeCall(t)
    \/ RegisterSteps(t)
    \/ \E v \in WriteVals : CallSet(t, "a", v)
    \/ CallUpdate(t, "a")
    \/ UpdateRead(t)
    \/ CallDispatch(t, "e")
    \/ WriteSteps(t)
    \/ DerivedCompute(t)
    \/ DerivedWrite(t)
    \/ DedupedCompare(t)
    \/ DedupedWrite(t)

SpecListen == InitListen /\ [][NextListen]_vars

\* Derived::new of y has registered its listener on x.
Listens(y, x) == \E i \in 1..Len(Targets(y)) : Targets(y)[i] = x

\* let a = Observable::new(1); let b = Observable::new(2);
\* let d = Derived::new(&[a], || a.get() * 2);
\* let s = Derived::new(&[a, b], || a.get() + b.get());
\* d.listen(count); s.listen(count);
\* then one thread makes MaxWrites calls of set or update on a or b, one
\* after the other.  (No Deduped is built; value["q"] is unused.)
InitSum ==
  /\ value = [x \in ValueEntities |->
                CASE x = "b" -> 2 [] x = "d" -> 2 [] x = "s" -> 3 [] OTHER -> 1]
  /\ \E oa \in Orders((IF Listens("d", "a")
                          THEN {Entry(0, DerivedListener)} ELSE {})
                      \cup (IF Listens("s", "a")
                              THEN {Entry(1, SumListener(1))} ELSE {})) :
       callbacks = [x \in Entities |->
         CASE x = "a" -> oa
           [] x = "b" -> IF Listens("s", "b")
                           THEN <<Entry(0, SumListener(2))>> ELSE <<>>
           [] x = "d" -> <<Entry(0, CountListener(<<"ld", 0>>))>>
           [] x = "s" -> <<Entry(0, CountListener(<<"ls", 0>>))>>
           [] OTHER -> <<>>]
  /\ budget = [t \in Threads |-> IF t = 1 THEN MaxWrites ELSE 0]
  /\ fired = [n \in Names |-> 0]
  /\ recv = [n \in Names |-> <<>>]
  /\ handle = HandlesOf(callbacks)
  /\ InitBase

NextSum ==
  \E t \in Threads :
    \/ \E x \in {"a", "b"} : \E v \in WriteVals : CallSet(t, x, v)
    \/ \E x \in {"a", "b"} : CallUpdate(t, x)
    \/ UpdateRead(t)
    \/ WriteSteps(t)
    \/ DerivedCompute(t)
    \/ DerivedWrite(t)

SpecSum == InitSum /\ [][NextSum]_vars

\* let a = Observable::new(1); let q = Deduped::from(a.clone()); with the
\* subscribers and the listener of InitDedupedRegs; then one thread makes
\* MaxWrites calls of set or update, on the cell or through the Deduped,
\* one after the other.
NextPass ==
  \E t \in Threads :
    \/ \E x \in {"a", "q"} : \E v \in WriteVals : CallSet(t, x, v)
    \/ \E x \in {"a", "q"} : CallUpdate(t, x)
    \/ UpdateRead(t)
    \/ WriteSteps(t)
    \/ DedupedCompare(t)
    \/ DedupedWrite(t)

SpecPass == InitSeq /\ [][NextPass]_vars

\* let e = Event::new(); e.listen(count); e.listen(count); then every thread
\* makes up to MaxCalls calls of e.dispatch(), one of which thread 1 may
\* replace by e.listen with its own counting closure.
InitEvent ==
  /\ value = [x \in ValueEntities |-> 0]
  /\ \E oe \in Orders({Entry(0, CountListener(<<"le", 0>>)),
                      Entry(1, CountListener(<<"le", 1>>))}) :
       callbacks = [x \in Entities |-> IF x = "e" THEN oe ELSE <<>>]
  /\ budget = [t \in Threads |-> MaxCalls]
  /\ fired = [n \in Names |-> 0]
  /\ recv = [n \in Names |-> <<>>]
  /\ handle = HandlesOf(callbacks)
  /\ InitBase

NextEvent ==
  \E t \in Threads :
    \/ CallDispatch(t, "e")
    \/ NotifyLock(t)
    \/ NotifyNext(t)
    \/ NotifyDone(t)
    \/ t = 1 /\ CallListen(t, "e")
    \/ RegisterSteps(t)

SpecEvent == InitEvent /\ [][NextEvent]_vars

\* let a = Observable::new(0); let d = Derived::new(&[a], || a.get() * 2);
\* a.subscribe(store); d.listen(count); and a listener that panics, on a or
\* on d; then every thread calls a.set(v) once.
InitFault ==
  /\ value = [x \in ValueEntities |-> 0]
  /\ \E px \in {"a", "d"} :
     \E oa \in Orders({Entry(0, DerivedListener),
                      Entry(1, StoreSubscriber(<<"sa", 0>>))}
                     \cup (IF px = "a" THEN {Entry(2, PanicCb)} ELSE {})) :
     \E od \in Orders({Entry(0, CountListener(<<"ld", 0>>))}
                     \cup (IF px = "d" THEN {Entry(1, PanicCb)} ELSE {})) :
       callbacks = [x \in Entities |->
                      IF x = "a" THEN oa ELSE IF x = "d" THEN od ELSE <<>>]
  /\ budget = [t \in Threads |-> 1]
  /\ fired = [n \in Names |-> IF n = <<"sa", 0>> THEN 1 ELSE 0]
  /\ recv = [n \in Names |-> IF n = <<"sa", 0>> THEN <<0>> ELSE <<>>]
  /\ handle = HandlesOf(callbacks)
  /\ InitBase

NextFault ==
  \E t \in Threads :
    \/ \E v \in SetVals : CallSet(t, "a", v)
    \/ WriteSteps(t)
    \/ DerivedCompute(t)
    \/ DerivedWrite(t)

SpecFault == InitFault /\ [][NextFault]_vars

\* let a = Observable::new(1); let b = Observable::new(2);
\* let d = Derived::new(&[a], || a.get() * 2);
\* let w = Derived::new(&[a, d], || a.get() + d.get());
\* let q = Deduped::from(a.clone()); let m = Observable::new(0);
\* a.subscribe(|a| m.set(b.get() + a)); b.subscribe(|b| m.set(a.get() + b));
\* d.listen(count); w.listen(count); q.subscribe(store);
\* then one thread makes MaxWrites calls of set on a or b, one after the
\* other.
InitChain ==
  /\ value = [x \in ValueEntities |->
                CASE x \in {"b", "d"} -> 2 [] x \in {"w", "m"} -> 3
                  [] x = "s" -> 0 [] OTHER -> 1]
  /\ \E oa \in Orders({Entry(0, DerivedListener), Entry(2, DedupedSubscriber),
                      Entry(3, MaintainSubscriber("a"))}
                     \cup (IF Listens("w", "a")
                             THEN {Entry(1, ChainListener(1))} ELSE {})) :
     \E od \in Orders({Entry(1, CountListener(<<"ld", 0>>))}
                     \cup (IF Listens("w", "d")
                             THEN {Entry(0, ChainListener(2))} ELSE {})) :
       callbacks = [x \in Entities |->
         CASE x = "a" -> oa
           [] x = "b" -> <<Entry(0, MaintainSubscriber("b"))>>
           [] x = "d" -> od
           [] x = "w" -> <<Entry(0, CountListener(<<"lw", 0>>))>>
           [] x = "q" -> <<Entry(0, StoreSubscriber(<<"sq", 0>>))>>
           [] OTHER -> <<>>]
  /\ budget = [t \in Threads |-> IF t = 1 THEN MaxWrites ELSE 0]
  /\ fired = [n \in Names |->
                IF n \in {<<"qs", 0>>, <<"ma", 0>>, <<"mb", 0>>, <<"sq", 0>>}
                  THEN 1 ELSE 0]
  /\ recv = [n \in Names |-> IF n = <<"sq", 0>> THEN <<1>> ELSE <<>>]
  /\ handle = HandlesOf(callbacks)
  /\ InitBase

NextChain ==
  \E t \in Threads :
    \/ \E x \in {"a", "b"} : \E v \in WriteVals : CallSet(t, x, v)
    \/ WriteSteps(t)
    \/ DerivedCompute(t)
    \/ DerivedWrite(t)
    \/ DedupedCompare(t)
    \/ DedupedWrite(t)
    \/ MaintainGet(t)

SpecChain == InitChain /\ [][NextChain]_vars

\* let a = Observable::new(0); thread 1 has called a.listen(count) and keeps
\* the handle; a.listen(count) of the test is registered too.  Thread 1
\* calls its handle, up to MaxCalls times, while the other threads call
\* a.set(v), MaxCalls times each.
InitCancel ==
  /\ value = [x \in ValueEntities |-> 0]
  /\ \E oa \in Orders({Entry(0, CountListener(<<"c", 1>>)),
                      Entry(1, CountListener(<<"la", 0>>))}) :
       callbacks = [x \in Entities |-> IF x = "a" THEN oa ELSE <<>>]
  /\ budget = [t \in Threads |-> MaxCalls]
  /\ fired = [n \in Names |-> 0]
  /\ recv = [n \in Names |-> <<>>]
  /\ handle = HandlesOf(callbacks)
  /\ InitBase

NextCancel ==
  \E t \in Threads :
    \/ t = 1 /\ CallUnregister(t)
    \/ UnregisterRemove(t)
    \/ t # 1 /\ \E v \in SetVals : CallSet(t, "a", v)
    \/ WriteSteps(t)

SpecCancel == InitCancel /\ [][NextCancel]_vars

\* let a = Observable::new(0); a.listen(count); thread 1 calls
\* Derived::new(&[a], || a.get() * 2) or Deduped::from(a) while every other
\* thread calls a.set(v) once.
InitConstruct ==
  /\ value = [x \in ValueEntities |-> 0]
  /\ callbacks = [x \in Entities |->
                    IF x = "a" THEN <<Entry(0, CountListener(<<"la", 0>>))>>
                    ELSE <<>>]
  /\ budget = [t \in Threads |-> 1]
  /\ fired = [n \in Names |-> 0]
  /\ recv = [n \in Names |-> <<>>]
  /\ handle = HandlesOf(callbacks)
  /\ InitBase

NextConstruct ==
  \E t \in Threads :
    \/ t = 1 /\ CallNew(t, "d")
    \/ t = 1 /\ CallFrom(t, "q")
    \/ NewCompute(t)
    \/ NewListen(t)
    \/ FromGet(t)
    \/ SubscribeRead(t)
    \/ SubscribeCall(t)
    \/ RegisterSteps(t)
    \/ t # 1 /\ \E v \in WriteVals : CallSet(t, "a", v)
    \/ WriteSteps(t)
    \/ DerivedCompute(t)
    \/ DerivedWrite(t)
    \/ DedupedCompare(t)
    \/ DedupedWrite(t)

SpecConstruct == InitConstruct /\ [][NextConstruct]_vars

\* let a = Observable::new(0); a.listen(count); a.subscribe(store);
\* let e = Event::new(); e.listen(count); then thread 1 makes MaxCalls + 1
\* calls of listen, subscribe, its handle, set and dispatch, and every other
\* thread calls a.listen once, every call starting after the one before has
\* returned.
InitSerial ==
  /\ value = [x \in ValueEntities |-> 0]
  /\ \E oa \in Orders({Entry(0, CountListener(<<"la", 0>>)),
                      Entry(1, StoreSubscriber(<<"sa", 0>>))}) :
       callbacks = [x \in Entities |->
                      IF x = "a" THEN oa
                      ELSE IF x = "e" THEN <<Entry(0, CountListener(<<"le", 0>>))>>
                      ELSE <<>>]
  /\ budget = [t \in Threads |-> IF t = 1 THEN MaxCalls + 1 ELSE 1]
  /\ fired = [n \in Names |-> IF n = <<"sa", 0>> THEN 1 ELSE 0]
  /\ recv = [n \in Names |-> IF n = <<"sa", 0>> THEN <<0>> ELSE <<>>]
  /\ handle = HandlesOf(callbacks)
  /\ InitBase

NextSerial ==
  \E t \in Threads :
    \/ AllIdle /\ t = 1 /\ CallListen(t, "e")
    \/ AllIdle /\ CallListen(t, "a")
    \/ AllIdle /\ t = 1 /\ CallSubscribe(t, "a")
    \/ AllIdle /\ t = 1 /\ CallUnregister(t)
    \/ AllIdle /\ t = 1 /\ \E v \in SetVals : CallSet(t, "a", v)
    \/ AllIdle /\ t = 1 /\ CallDispatch(t, "e")
    \/ SubscribeRead(t)
    \/ SubscribeCall(t)
    \/ RegisterSteps(t)
    \/ UnregisterRemove(t)
    \/ WriteSteps(t)

SpecSerial == InitSerial /\ [][NextSerial]_vars

\* ------------------------------------------------------------------ claims
AllReturned == AllIdle /\ \A t \in Threads : budget[t] = 0
Started == Cardinality({t \in Threads : budget[t] = 0})

\* Registered user subscribers of x: the closures that store what they get.
UserSubscribers(x) ==
  {callbacks[x][i].cb : i \in {j \in 1..Len(callbacks[x]) :
      callbacks[x][j].cb.kind = "Subscriber" /\ callbacks[x][j].cb.act = "count"}}

\* Registrations on x that have returned.
Returned(x) == {n \in Names : handle[n] # <<>> /\ handle[n][1] = x}

\* C1: after N threads have each called update(v -> v + 1) once on a cell
\* that held 0, and all calls have returned, the cell holds N.
C1_NoLostUpdate == AllReturned => value["a"] = NThreads

\* C2: with every thread writing the cell once, the listener registered on
\* the cell and the listener registered on the Derived over that cell have
\* each been invoked once per write that has returned: never more often than
\* writes were started, and exactly that often once no write is in progress.
C2_OneNotificationPerWrite ==
  /\ fired[<<"la", 0>>] <= Started /\ fired[<<"ld", 0>>] <= Started
  /\ AllIdle => fired[<<"la", 0>>] = Started /\ fired[<<"ld", 0>>] = Started

\* All N concurrent writes have returned and both listeners counted N.
C2_Witness ==
  /\ AllReturned /\ NThreads > 1
  /\ fired[<<"la", 0>>] = NThreads /\ fired[<<"ld", 0>>] = NThreads
  /\ passes["a"] = NThreads /\ passes["d"] = NThreads

\* C3: no two registrations that returned on one entity hold the same id,
\* and the registry holds as many entries as registrations have returned
\* minus the handles that have removed theirs.
C3_UniqueIds ==
  /\ \A n, m \in Names :
       (n # m /\ handle[n] # <<>> /\ handle[m] # <<>>) => handle[n] # handle[m]
  /\ \A x \in Entities :
       Len(callbacks[x]) =
         Cardinality(Returned(x)) - Cardinality(Returned(x) \cap unreg)

\* C4: no dispatch pass starts without a callback whose registration had
\* returned and whose handle had not been called.
C4_NoLostRegistration == ~lost

\* C5: once no write is in progress, the Derived holds its compute
\* function of the cell's value.
C5_DerivedConsistent == AllIdle => value["d"] = ComputeFn("d", <<value["a"]>>)

\* C6: once no write is in progress, the Deduped holds the value of the
\* cell it wraps.
C6_DedupedMirrors == AllIdle => value["q"] = value["a"]

\* C7: once no write is in progress, every registered subscriber of an
\* entity last received the value the entity holds.
C7_SubscribersCurrent ==
  AllIdle => \A x \in ValueEntities : \A cb \in UserSubscribers(x) :
               recv[cb.name] = <<value[x]>>

\* C8: in a sequential series of set calls, the Deduped's listener has fired
\* once for each call whose value differed from the Deduped's value, its
\* subscriber once more (at registration), and there were no other passes.
C8_DedupedSuppressesEqual ==
  AllIdle => /\ fired[<<"lq", 0>>] = expected
             /\ fired[<<"sq", 0>>] = 1 + expected
             /\ passes["q"] = expected

\* From 1: set(2); set(2); set(3) has fired the listener exactly twice.
C8_Witness ==
  /\ AllReturned /\ MaxWrites = 3 /\ passes["a"] = 3
  /\ value["q"] = 3 /\ expected = 2 /\ fired[<<"lq", 0>>] = 2

\* C9: the Deduped's subscriber never receives the same value twice in a
\* row, and the Deduped has started no more passes than its value changed.
C9_NoReEmit ==
  /\ <<"sq", 0>> \notin repeat
  /\ passes["q"] <= changes["q"]

\* C10: a thread never waits for the write lock of a registry on which it
\* holds a read guard itself, so a callback's listen or subscribe returns.
C10_NoSelfBlock ==
  \A t \in Threads :
    (~Idle(t) /\ Top(t).op \in {"listen", "subscribe"} /\ Top(t).pc = "insert")
      => rlock[Top(t).e][t] = 0

\* C11: once a handle has removed its id, no later step invokes the callback
\* it was returned for, and a further call of that handle leaves every
\* registry as it was.
C11_UnregisterEffective ==
  [][/\ \A n \in unreg : fired'[n] = fired[n]
     /\ \A t \in Threads :
          (At(t, "unreg", "remove") /\ Top(t).cb.name \in unreg
             /\ stack'[t] # stack[t])
            => callbacks' = callbacks]_vars

\* C12: a handle removes no callback but the one it was returned for: every
\* other callback in the registry is still there after the removal.
C12_RemovesOnlyOwn ==
  [][\A t \in Threads :
       (At(t, "unreg", "remove") /\ stack'[t] # stack[t])
         => RegNames(callbacks[Top(t).e]) \ {Top(t).cb.name}
              \subseteq RegNames(callbacks'[Top(t).e])]_vars

\* C13: while subscribe runs, its callback is not registered; before the
\* immediate call it has not been invoked; from the immediate call until
\* subscribe returns it has been invoked exactly once, with the value the
\* entity holds; and once subscribe has returned the callback has been
\* invoked, whether or not a write followed.
C13_SubscribeFiresFirst ==
  \A t \in Threads :
    LET n == <<"c", t>> IN
    /\ (~Idle(t) /\ Top(t).op = "subscribe") =>
         /\ \A x \in Entities : n \notin RegNames(callbacks[x])
         /\ Top(t).pc \in {"read", "call"} => fired[n] = 0
         /\ Top(t).pc \in {"id", "inc", "insert"} =>
              /\ fired[n] = 1 /\ recv[n] = Top(t).vo
              /\ recv[n] = <<value[Top(t).e]>>
    /\ handle[n] # <<>> => fired[n] >= 1

\* After a.set(1), subscribe on the Derived has called its closure once,
\* with 2, has then registered it, and no write has followed.
C13_Witness ==
  /\ AllIdle /\ handle[<<"c", 1>>] = <<"d", 0>> /\ passes["a"] = 1
  /\ value["a"] = 1 /\ fired[<<"c", 1>>] = 1 /\ recv[<<"c", 1>>] = <<2>>
  /\ RegNames(callbacks["d"]) = {<<"c", 1>>}

\* C14: when subscribe(cb) has run while a.set(v) ran, and both have
\* returned, cb has been invoked with the value the write gave the entity it
\* subscribed to: the last value it received is the value the entity holds.
C14_NoMissedWrite ==
  (AllReturned /\ handle[<<"c", 1>>] # <<>>)
    => recv[<<"c", 1>>] = <<value[handle[<<"c", 1>>][1]]>>

\* C15: a closure handed to listen is invoked by nothing but a turn of a
\* dispatch pass over the registry listen put it in, after listen returned:
\* listen itself never invokes it.  (The only other invocation of a
\* thread's closure is the immediate call subscribe makes of a subscriber.)
C15_ListenDoesNotFire ==
  [][\A t \in Threads :
       fired'[<<"c", t>>] # fired[<<"c", t>>]
         => \/ /\ handle[<<"c", t>>] # <<>>
               /\ \E u \in Threads :
                    /\ At(u, "notify", "iter") /\ Top(u).rem # <<>>
                    /\ Top(u).e = handle[<<"c", t>>][1]
                    /\ Head(Top(u).rem).cb.name = <<"c", t>>
                    /\ stack'[u] # stack[u]
            \/ /\ At(t, "subscribe", "call")
               /\ Top(t).cb = StoreSubscriber(<<"c", t>>)]_vars

\* a.set(1); d.listen(count); a.set(2): the pass before the registration
\* did not invoke the listener, the pass after it did, once.
C15_Witness ==
  /\ AllIdle /\ handle[<<"c", 1>>] = <<"d", 0>>
  /\ callbacks["d"] = <<Entry(0, CountListener(<<"c", 1>>))>>
  /\ passes["d"] = 2 /\ fired[<<"c", 1>>] = 1

\* The compute closure of the Derived x applied to what its sources hold.
Computed(x) ==
  ComputeFn(x, [i \in 1..Len(Sources(x)) |-> value[Sources(x)[i]]])

\* C16: in sequential use, at construction and whenever a set or update on
\* an upstream cell has returned, each Derived holds its compute function
\* of the current upstream values: a * 2, and a + b.
C16_DerivedFollows ==
  AllIdle => \A x \in {"d", "s"} : value[x] = Computed(x)

\* From a = 1, b = 2, sum 3: after writes to both cells that left a = 3 and
\* b = 1, the sum is 4 and the double is 6.
C16_Witness ==
  /\ AllIdle /\ passes["a"] >= 1 /\ passes["b"] >= 1
  /\ value["a"] = 3 /\ value["b"] = 1 /\ value["s"] = 4 /\ value["d"] = 6

\* Calls of set or update the writing thread has started.
Writes == MaxWrites - budget[1]

\* C17: each set or update on an upstream cell runs the Derived's listener
\* once and the Derived's registry once: the sum's listeners on a and b have
\* run once per write of a and of b, the sum has started one pass per
\* write, each invoking its listener once, changed value or not.
C17_OneRecomputePerWrite ==
  /\ fired[<<"sl", 1>>] + fired[<<"sl", 2>>] <= Writes
  /\ passes["s"] <= Writes /\ fired[<<"ls", 0>>] <= passes["s"]
  /\ AllIdle => /\ passes["a"] + passes["b"] = Writes
                /\ fired[<<"sl", 1>>] = passes["a"]
                /\ fired[<<"sl", 2>>] = passes["b"]
                /\ fired[<<"dl", 0>>] = passes["a"] /\ passes["d"] = passes["a"]
                /\ passes["s"] = Writes /\ fired[<<"ls", 0>>] = Writes
                /\ fired[<<"ld", 0>>] = passes["a"]

\* Three writes that change nothing (a.set(1), b.set(2), a.set(1)) still
\* gave three notifications of the sum.
C17_Witness ==
  /\ AllIdle /\ Writes = 3 /\ passes["a"] = 2 /\ passes["b"] = 1
  /\ changes = [x \in ValueEntities |-> 0]
  /\ value["a"] = 1 /\ value["b"] = 2 /\ value["s"] = 3
  /\ fired[<<"ls", 0>>] = 3

\* C18: in sequential use, once deduped.set(x) has returned, the wrapped
\* cell and the Deduped both hold x, and once deduped.update(f) has
\* returned both hold f of the value held before the call.
C18_DedupedPassThrough ==
  (AllIdle /\ want # <<>> /\ want[1] = "q")
    => value["a"] = want[3] /\ value["q"] = want[3]

\* From 1: q.set(3) and then q.update(|v| v + 1) have returned, and the
\* cell and the Deduped hold 4.
C18_Witness ==
  /\ AllIdle /\ want = <<"q", "update", 4>> /\ passes["a"] >= 2
  /\ value["a"] = 4 /\ value["q"] = 4

\* Dispatch passes of the Event that are still running.
Dispatching ==
  Cardinality({t \in Threads : ~Idle(t) /\ stack[t][1].op = "notify"})

\* C19: every dispatch() invokes each listener that is registered exactly
\* once: a listener registered before the threads start has been invoked
\* once per dispatch that has returned, at most once per dispatch that is
\* running, and exactly once per dispatch call when none is running; a
\* listener registered meanwhile has been invoked at most once per dispatch
\* and not before its registration returned.
C19_DispatchInvokesEach ==
  /\ \A i \in {0, 1} :
       /\ fired[<<"le", i>>] <= passes["e"]
       /\ fired[<<"le", i>>] >= passes["e"] - Dispatching
       /\ AllIdle => fired[<<"le", i>>] = passes["e"]
  /\ fired[<<"c", 1>>] <= passes["e"]
  /\ handle[<<"c", 1>>] = <<>> => fired[<<"c", 1>>] = 0

\* Every thread has dispatched MaxCalls times, concurrently, and each
\* listener has been invoked NThreads * MaxCalls times.
C19_Witness ==
  /\ AllReturned /\ NThreads > 1
  /\ passes["e"] = NThreads * MaxCalls
  /\ fired[<<"le", 0>>] = NThreads * MaxCalls
  /\ fired[<<"le", 1>>] = NThreads * MaxCalls

\* C20: with no other call in progress, once cell.set(v) has returned,
\* cell.get() returns v.
C20_SetThenGet ==
  (AllIdle /\ want # <<>> /\ want[2] = "set") => Get(want[1]) = want[3]

\* b.set(3) has returned after a write of a, and b.get() is 3.
C20_Witness ==
  /\ AllIdle /\ want = <<"b", "set", 3>> /\ passes["a"] >= 1
  /\ passes["b"] >= 1 /\ Get("b") = 3

\* C21: with no other call in progress, once cell.update(f) has returned,
\* cell.get() returns f of the value the cell held when update was called
\* (the v0 of a preceding set), and every set or update that has returned
\* has started exactly one dispatch pass of its cell.
C21_UpdateComposes ==
  AllIdle =>
    /\ (want # <<>> /\ want[2] = "update") => Get(want[1]) = want[3]
    /\ passes["a"] + passes["b"] = Writes

\* a.set(3); a.update(|v| v + 1) have returned: a.get() is 4, after two
\* passes of a's registry.
C21_Witness ==
  /\ AllIdle /\ want = <<"a", "update", Updater(3)>> /\ Get("a") = 4
  /\ passes["a"] = 2 /\ passes["b"] = 0 /\ Writes = 2

\* C22: every set or update on the cell runs each callback registered on it
\* exactly once, changed value or not: the cell has started one pass per
\* call, and its two subscribers have been called once per pass on top of
\* their immediate call at registration.
C22_CellAlwaysNotifies ==
  /\ passes["a"] <= Writes
  /\ fired[<<"sa", 0>>] <= 1 + passes["a"] /\ fired[<<"qs", 0>>] <= 1 + passes["a"]
  /\ AllIdle => /\ passes["a"] = Writes
                /\ fired[<<"sa", 0>>] = 1 + Writes
                /\ fired[<<"qs", 0>>] = 1 + Writes

\* Three calls of set(1) on the cell that holds 1 have each notified.
C22_Witness ==
  /\ AllIdle /\ Writes = 3 /\ Get("a") = 1 /\ changes["q"] = 0
  /\ want = <<"a", "set", 1>> /\ passes["q"] = 0
  /\ passes["a"] = 3 /\ fired[<<"sa", 0>>] = 4

\* C23: the step in which a callback panics takes the whole call stack of
\* its thread away (the panic is with the caller of set, the rest of the
\* pass does not run) and changes nothing else: values, registries and what
\* the callbacks before it received stay as they were; the thread does not
\* resume the pass, and it keeps no guard; and when that set ran with no
\* other call in progress the cell holds the value it wrote.
C23_FaultPropagates ==
  [][/\ \A t \in Threads :
          (~Panicked(t) /\ stack'[t] = <<PanicFrame>>)
            => /\ value' = value /\ recv' = recv /\ callbacks' = callbacks
               /\ fired' = [fired EXCEPT ![<<"pn", 0>>] = @ + 1]
               /\ \A x \in Entities : rlock'[x][t] = 0
               /\ (want # <<>> /\ Alone(t)) => Get("a") = want[3]
     /\ \A t \in Threads : Panicked(t) => stack'[t] = stack[t]
     /\ fired'[<<"pn", 0>>] # fired[<<"pn", 0>>]
          => \E t \in Threads : ~Panicked(t) /\ stack'[t] = <<PanicFrame>>]_vars

\* a.set(1) has ended in the panic of the listener on the Derived: the cell
\* holds 1, the Derived 2, and the subscriber that ran before has received 1.
C23_Witness ==
  /\ Panicked(1) /\ fired[<<"pn", 0>>] = 1 /\ want = <<"a", "set", 1>>
  /\ Get("a") = 1 /\ Get("d") = 2 /\ recv[<<"sa", 0>>] = <<1>>
  /\ fired[<<"sa", 0>>] = 2 /\ \A x \in Entities : rlock[x][1] = 0

\* C24: in sequential use, whenever a set on a or b has returned, the
\* Derived over a, the Derived over a and that Derived, and the Deduped of a
\* hold the values computed from the current a, the maintaining subscribers
\* have run once per write of their cell, and m holds a + b.
C24_ChainSynchronous ==
  AllIdle =>
    /\ Get("d") = Get("a") * 2
    /\ Get("w") = Get("a") + Get("d")
    /\ Get("q") = Get("a")
    /\ fired[<<"ma", 0>>] = 1 + passes["a"]
    /\ fired[<<"mb", 0>>] = 1 + passes["b"]
    /\ passes["a"] + passes["b"] = Writes
    /\ Get("m") = Get("a") + Get("b")
    /\ recv[<<"sq", 0>>] = <<Get("a")>>

\* a.set(3) has returned after b.set(1): d = 6, w = 9, q = 3, m = 4.
C24_Witness ==
  /\ AllIdle /\ want = <<"a", "set", 3>> /\ passes["b"] = 1
  /\ Get("a") = 3 /\ Get("b") = 1 /\ Get("d") = 6 /\ Get("w") = 9
  /\ Get("q") = 3 /\ Get("m") = 4

\* Position of the callback named n in the registry of x (0 when absent).
Pos(x, n) ==
  IF n \in RegNames(callbacks[x])
    THEN CHOOSE i \in 1..Len(callbacks[x]) : callbacks[x][i].cb.name = n
    ELSE 0

\* C27: whenever a sequential a.set(v) has returned, w holds its compute
\* function of the current a and the current d, in every iteration order
\* of a's registry; and the last notification of w's own registry was
\* started from that value.
C27_DiamondConverges ==
  /\ AllIdle => /\ value["w"] = Computed("w") /\ value["d"] = Computed("d")
                /\ passes["w"] = 2 * passes["a"]
                /\ fired[<<"lw", 0>>] = passes["w"]
  /\ \A t \in Threads :
       (At(t, "notify", "iter") /\ Top(t).e = "a" /\ Top(t).rem = <<>>
          /\ Len(stack[t]) = 1)
         => value["w"] = Computed("w")

\* a's registry iterates w's listener before d's, so that w's listener on a
\* ran while d still held its old value; a.set(3) has returned with d = 6 and
\* w = 9, after two notifications of w's registry.
C27_Witness ==
  /\ Pos("a", <<"wl", 1>>) < Pos("a", <<"dl", 0>>)
  /\ AllIdle /\ Writes = 1 /\ want = <<"a", "set", 3>>
  /\ Get("d") = 6 /\ Get("w") = 9 /\ fired[<<"lw", 0>>] = 2

\* C25: once the handle of a registration has returned, its callback is not
\* invoked again, by a pass started later or by one that was iterating when
\* the handle was called; and the handle returns only in a step in which no
\* thread holds the read guard of a pass on that registry.
C25_UnregisterSynchronous ==
  [][/\ \A n \in unreg : fired'[n] = fired[n]
     /\ \A t \in Threads :
          (At(t, "unreg", "remove") /\ stack'[t] = <<>>)
            => /\ \A u \in Threads : rlock[Top(t).e][u] = 0
               /\ \A u \in Threads :
                    ~(At(u, "notify", "iter") /\ Top(u).e = Top(t).e)]_vars

\* Thread 1 has called its handle while thread 2's pass holds the read guard
\* with thread 1's callback still to be called: the handle waits.
C25_Witness ==
  /\ At(1, "unreg", "remove") /\ Top(1).e = "a"
  /\ At(2, "notify", "iter") /\ Top(2).e = "a" /\ rlock["a"][2] = 1
  /\ Top(2).rem # <<>> /\ Head(Top(2).rem).cb.name = <<"c", 1>>
  /\ fired[<<"c", 1>>] = 0 /\ ~WriteFree("a")

\* C26: when Derived::new or Deduped::from has run while another thread
\* called set on the source, and both have returned, the new Derived holds
\* its compute function of the source's value and the new Deduped holds the
\* source's value.
C26_ConstructionConsistent ==
  AllReturned =>
    /\ handle[<<"dl", 0>>] # <<>> => value["d"] = Computed("d")
    /\ handle[<<"qs", 0>>] # <<>> => value["q"] = value["a"]

\* Thread t is in listen or subscribe at the statement pc.
Registering(t, pc) ==
  ~Idle(t) /\ Top(t).op \in {"listen", "subscribe"} /\ Top(t).pc = pc

\* C28: no step lowers an id counter; the only step that changes one is the
\* increment inside listen or subscribe on that entity, by one (the handle,
\* set, the passes of notify and dispatch leave it alone); and when calls
\* follow one another, the id a registration inserts is greater than every
\* id issued on that entity before, unregistered or not.
C28_CounterMonotone ==
  [][/\ \A x \in Entities : counter'[x] >= counter[x]
     /\ \A x \in Entities :
          counter'[x] # counter[x]
            => /\ counter'[x] = counter[x] + 1
               /\ \E t \in Threads :
                    /\ Registering(t, "inc") /\ Top(t).e = x
                    /\ stack'[t] # stack[t]
     /\ \A t \in Threads :
          (Registering(t, "insert") /\ stack'[t] = Below(t))
            => \A n \in Names :
                 (handle[n] # <<>> /\ handle[n][1] = Top(t).e)
                   => Top(t).id > handle[n][2]]_vars

\* Thread 1 registered on a with id 2 and has called its handle; thread 2's
\* registration, started afterwards, is about to insert id 3.
C28_Witness ==
  /\ <<"c", 1>> \in unreg /\ handle[<<"c", 1>>] = <<"a", 2>>
  /\ Registering(2, "insert") /\ Top(2).e = "a" /\ Top(2).id = 3
  /\ counter["a"] = 4 /\ passes["a"] = 1 /\ fired[<<"c", 1>>] = 0

====
